---- MODULE Spec2Model ----
(***************************************************************************)
(* A model of the SVD_sing experiment runner:                              *)
(*   - main      (SVD_sing/svd_sing.py): the k-fold loop that splits the   *)
(*                users, decomposes, fits one classifier per attribute,    *)
(*                predicts, computes the KPIs and writes them;             *)
(*   - parseArgs (SVD_sing/svd_sing.py): the argument conflict handling;   *)
(*   - load      (dataloaders/yelp.py): the rating file reader.            *)
(* Each of the three is a specification of its own over the same           *)
(* variables: Spec (main), SpecArgs (parseArgs), SpecYelp (load).          *)
(***************************************************************************)
EXTENDS Integers, Sequences, FiniteSets, TLC

\* ------------------------------------------------------------- bounds
MaxUsrs == 2
MaxFolds == 2
MaxAttrs == 2
MaxLabels == 2
MaxPathLen == 4
MaxLines == 3

\* Python's None
None == <<"None">>

VARIABLES
    \* ---- main
    pc,             \* position of main
    err,            \* the exception main ended with ("" while none)
    foldNum,        \* argv[2]
    uniqUsrs,       \* unique(usrs): sorted, no duplicates
    usr2labels,     \* user -> binary label vector
    attrsCnt,       \* dataloader.getLabelsCnt()
    kfolds,         \* splitKfolds(...): foldNum lists of positions in uniqUsrs
    foldIt,         \* how many values the outer loop has taken from range(foldNum)
    ind,            \* the loop variable both loops bind
    attrIt,         \* how many values the inner loop has taken from range(attrsCnt)
    usrs4Train, usrs4Valid, usrsShuffled,
    statevalidator, \* the validator of the current fold
    uAll, uTrain, uValid,   \* embeddings: a row is the user it belongs to
    dataStats,      \* the statistics records of the current fold
    statIt,         \* how many records the statistics loop has handled
    logreg,         \* the classifier of the current attribute
    attrs,          \* the target list of the last fit
    events,         \* what the current fold has done so far, in order
    validators,     \* every validator built so far, in order
    valids,         \* the validation users of every fold started so far, in order
    csv,            \* every record written by writeCSVStats so far, in order
    retval,         \* what main returned (None until it does)
    \* ---- parseArgs
    apc, rating_file, usr2labels_file, aresult,
    \* ---- yelp load
    ypc, usr2itemsIndx, itemsList, ind2ItemNum, lines, before, linesRead

mainVars == <<pc, err, foldNum, uniqUsrs, usr2labels, attrsCnt, kfolds, foldIt, ind,
              attrIt, usrs4Train, usrs4Valid, usrsShuffled, statevalidator, uAll,
              uTrain, uValid, dataStats, statIt, logreg, attrs, events, validators,
              valids, csv, retval>>
argsVars == <<apc, rating_file, usr2labels_file, aresult>>
yelpVars == <<ypc, usr2itemsIndx, itemsList, ind2ItemNum, lines, before, linesRead>>
vars == <<mainVars, argsVars, yelpVars>>

\* ------------------------------------------------------------- helpers
RECURSIVE Flatten(_)
Flatten(ss) == IF ss = <<>> THEN <<>> ELSE Head(ss) \o Flatten(Tail(ss))

Range(s) == {s[i] : i \in 1..Len(s)}

\* the list s without its elements at the (1-based) positions in drop
RECURSIVE Without(_, _)
Without(s, drop) ==
    IF s = <<>> THEN <<>>
    ELSE LET rest == Without(SubSeq(s, 1, Len(s) - 1), drop)
         IN  IF Len(s) \in drop THEN rest ELSE rest \o <<s[Len(s)]>>

\* Python's range(n)[i]
PyRange(n) == [i \in 1..n |-> i - 1]

\* ------------------------------------------------------------- main: the data
\* the user ids: unique(usrs) is sorted and free of duplicates
UniqUsrs(n) == [i \in 1..n |-> i]

\* a user's label vector: a fixed-length binary vector
LabelVecs == [1..MaxLabels -> {0, 1}]

\* the columns (0-based) of a label vector that are not zero, in increasing order
RECURSIVE NonZeroCols(_)
NonZeroCols(labels) ==
    IF labels = <<>> THEN <<>>
    ELSE LET n == Len(labels)
             front == NonZeroCols(SubSeq(labels, 1, n - 1))
         IN  IF labels[n] # 0 THEN front \o <<n - 1>> ELSE front

\* shuffle(range(n)): any order of the positions 0..n-1
Shuffles(n) ==
    {p \in [1..n -> 0..(n - 1)] : \A i, j \in 1..n : i # j => p[i] # p[j]}

\* where the shuffled positions are cut into k consecutive folds
Cuts(n, k) ==
    {c \in [1..(k - 1) -> 0..n] : \A i, j \in 1..(k - 1) : i <= j => c[i] <= c[j]}

\* splitKfolds(len(uniqUsrs), foldNum, random.shuffle): the shuffled positions
\* cut into foldNum disjoint folds
splitKfolds(shuffled, k, cut) ==
    [f \in 1..k |->
        SubSeq(shuffled,
               (IF f = 1 THEN 0 ELSE cut[f - 1]) + 1,
               IF f = k THEN Len(shuffled) ELSE cut[f])]

\* getTrainValid(kfolds, ind, uniqUsrs, ...): the users of fold ind validate
getUsrs4Valid(folds, i, usrs) ==
    [j \in 1..Len(folds[i + 1]) |-> usrs[folds[i + 1][j] + 1]]

\* getTrainValid(kfolds, ind, uniqUsrs, ...): the users of the other folds train
getUsrs4Train(folds, i, usrs) ==
    LET rest == Flatten(Without(folds, {i + 1}))
    IN  [j \in 1..Len(rest) |-> usrs[rest[j] + 1]]

\* for ind in range(foldNum): the value the loop binds ind to, given how many
\* values it has taken (it) and what ind holds (v)
LoopIndOfVariable(n, it, v) == IF it = 0 THEN 0 ELSE v + 1
LoopInd(n, it, v) == PyRange(n)[it + 1]

\* DATA2VALIDATOR[dataset](curFold=ind, totalFolds=foldNum, ...)
StateValidatorSwapped(i, n) == [curFold |-> n, totalFolds |-> i]
StateValidator(i, n) == [curFold |-> i, totalFolds |-> n]

\* usrsShuffled = usrs4Train + usrs4Valid
UsrsShuffledTrainTwice(train, valid) == train \o train
UsrsShuffled(train, valid) == train \o valid

\* loadToCSCMatrix + svds: row i of uAll is the embedding of uniqShuffledUsrs[i]
svds(shuffledUsrs) == [i \in 1..Len(shuffledUsrs) |-> [embOf |-> shuffledUsrs[i]]]

\* uTrain = uAll[:trainUsrsCnt, :]
UTrainOffByOne(u, trainUsrsCnt) == SubSeq(u, 1, trainUsrsCnt - 1)
UTrain(u, trainUsrsCnt) == SubSeq(u, 1, trainUsrsCnt)

\* uValid = uAll[trainUsrsCnt:, :]
UValid(u, trainUsrsCnt) == SubSeq(u, trainUsrsCnt + 1, Len(u))

\* getDataStats(usrs4Train, usrs4Valid): one record for train, one for valid
getDataStats(train, valid) ==
    << [name |-> "train", u2predictions |-> [u \in Range(train) |-> <<>>], KPIs |-> <<>>],
       [name |-> "valid", u2predictions |-> [u \in Range(valid) |-> <<>>], KPIs |-> <<>>] >>

\* no classifier bound yet
NoLogReg == [bound |-> FALSE, fits |-> 0, X |-> <<>>, y |-> <<>>]

\* initLogReg(...): a classifier that has not been fitted
initLogReg == [bound |-> TRUE, fits |-> 0, X |-> <<>>, y |-> <<>>]

\* logreg = initLogReg(...): the classifier the loop body fits, given the one
\* the variable held before
LogRegReused(prev) == IF prev.bound THEN prev ELSE initLogReg
LogRegForAttr(prev) == initLogReg

\* logreg.fit(X, y)
fit(lr, X, y) == [lr EXCEPT !.fits = @ + 1, !.X = X, !.y = y]

\* whether usr2NonzeroCols[usr][ind] raises IndexError for a training user
AttrsIndexError(train, labels, i) ==
    \E k \in 1..Len(train) : Len(NonZeroCols(labels[train[k]])) <= i

\* attrs = [usr2NonzeroCols[usr][ind] for usr in usrs4Train]
AttrsOfLabelEntry(train, labels, i) ==
    [k \in 1..Len(train) |-> labels[train[k]][i + 1]]
Attrs(train, labels, i) ==
    [k \in 1..Len(train) |-> NonZeroCols(labels[train[k]])[i + 1]]

\* handlePrediction(dataStats, uTrain, uValid, logreg): every user of the train
\* record and of the valid record gets the classifier's prediction appended
\* (the prediction itself is the library's: it is kept as the classifier's fits)
handlePrediction(stats, uT, uV, lr) ==
    [d \in 1..Len(stats) |->
        LET rows == IF stats[d].name = "train" THEN uT ELSE uV
            owners == {rows[r].embOf : r \in 1..Len(rows)}
        IN  [stats[d] EXCEPT !.u2predictions =
                [u \in DOMAIN @ |-> IF u \in owners THEN Append(@[u], lr.fits) ELSE @[u]]]]

\* KPI2getters
KPI2getters == {"microF1", "oneError", "RL", "coverage", "avgPrec", "hammingLoss"}

\* d['KPIs'] = {kpi: getter(KPIArgs) for kpi, getter in KPI2getters.iteritems()}
KPIsUnset(d) == d.KPIs
KPIs(d) == [kpi \in KPI2getters |-> <<kpi, d.name>>]

\* statevalidator.writeCSVStats(d): one row for the validator's fold
writeCSVStats(validator, d) ==
    [fold |-> validator.curFold, totalFolds |-> validator.totalFolds,
     name |-> d.name, KPIs |-> d.KPIs]

\* except ValueError: ...; raise
ExceptSwallowed == "fit"
ExceptValueError == "raised"

Ev(op, n) == [op |-> op, n |-> n]

\* ------------------------------------------------------------- main: the steps
ArgsIdle ==
    /\ apc = "idle" /\ rating_file = None /\ usr2labels_file = None
    /\ aresult = [kind |-> "none", rating_file |-> None, usr2labels_file |-> None]

YelpIdle ==
    /\ ypc = "idle" /\ usr2itemsIndx = <<>> /\ itemsList = <<>> /\ ind2ItemNum = <<>>
    /\ lines = <<>> /\ before = [usr2itemsIndx |-> <<>>, itemsList |-> <<>>]
    /\ linesRead = 0

MainIdle ==
    /\ pc = "idle" /\ err = "" /\ foldNum = 0 /\ uniqUsrs = <<>> /\ usr2labels = <<>>
    /\ attrsCnt = 0 /\ kfolds = <<>> /\ foldIt = 0 /\ ind = -1 /\ attrIt = 0
    /\ usrs4Train = <<>> /\ usrs4Valid = <<>> /\ usrsShuffled = <<>>
    /\ statevalidator = StateValidator(-1, -1)
    /\ uAll = <<>> /\ uTrain = <<>> /\ uValid = <<>> /\ dataStats = <<>> /\ statIt = 0
    /\ logreg = NoLogReg /\ attrs = <<>> /\ events = <<>> /\ validators = <<>>
    /\ valids = <<>>
    /\ csv = <<>> /\ retval = <<>>

\* main up to the fold loop: the arguments, the data, the labels and the folds
Init ==
    /\ ArgsIdle /\ YelpIdle
    /\ pc = "fold" /\ err = ""
    /\ foldNum \in 1..MaxFolds
    /\ \E n \in 1..MaxUsrs :
          /\ uniqUsrs = UniqUsrs(n)
          /\ usr2labels \in [1..n -> LabelVecs]
          /\ \E shuffled \in Shuffles(n) : \E cut \in Cuts(n, foldNum) :
                kfolds = splitKfolds(shuffled, foldNum, cut)
    /\ attrsCnt \in 0..MaxAttrs
    /\ foldIt = 0 /\ ind = -1 /\ attrIt = 0
    /\ usrs4Train = <<>> /\ usrs4Valid = <<>> /\ usrsShuffled = <<>>
    /\ statevalidator = StateValidator(-1, -1)
    /\ uAll = <<>> /\ uTrain = <<>> /\ uValid = <<>> /\ dataStats = <<>> /\ statIt = 0
    /\ logreg = NoLogReg /\ attrs = <<>> /\ events = <<>> /\ validators = <<>>
    /\ valids = <<>>
    /\ csv = <<>> /\ retval = <<>>

\* the head of the fold loop and the body up to the call of svds (kfolds[ind]
\* raises IndexError for an ind that is no fold)
FoldStart ==
    /\ pc = "fold" /\ foldIt < foldNum
    /\ LET i == LoopInd(foldNum, foldIt, ind) IN
       /\ ind' = i
       /\ foldIt' = foldIt + 1
       /\ IF i \notin 0..(Len(kfolds) - 1)
          THEN /\ pc' = "error" /\ err' = "IndexError: kfolds"
               /\ UNCHANGED <<usrs4Train, usrs4Valid, usrsShuffled, statevalidator,
                              validators, valids>>
          ELSE /\ pc' = "svd" /\ err' = err
               /\ usrs4Train' = getUsrs4Train(kfolds, i, uniqUsrs)
               /\ usrs4Valid' = getUsrs4Valid(kfolds, i, uniqUsrs)
               /\ statevalidator' = StateValidator(i, foldNum)
               /\ validators' = Append(validators, statevalidator')
               /\ valids' = Append(valids, usrs4Valid')
               /\ usrsShuffled' = UsrsShuffled(usrs4Train', usrs4Valid')
    /\ events' = <<>> /\ attrIt' = 0 /\ statIt' = 0
    /\ UNCHANGED <<foldNum, uniqUsrs, usr2labels, attrsCnt, kfolds, uAll, uTrain, uValid,
                   dataStats, logreg, attrs, csv, retval>>
    /\ UNCHANGED <<argsVars, yelpVars>>

\* svds returns: the slices and the statistics records are set up
SvdsReturns ==
    /\ pc = "svd"
    /\ uAll' = svds(usrsShuffled)
    /\ uTrain' = UTrain(uAll', Len(usrs4Train))
    /\ uValid' = UValid(uAll', Len(usrs4Train))
    /\ dataStats' = getDataStats(usrs4Train, usrs4Valid)
    /\ events' = Append(events, Ev("svd", 0))
    /\ pc' = IF attrsCnt = 0 THEN "stats" ELSE "fit"
    /\ UNCHANGED <<err, foldNum, uniqUsrs, usr2labels, attrsCnt, kfolds, foldIt, ind, attrIt,
                   usrs4Train, usrs4Valid, usrsShuffled, statevalidator, statIt, logreg,
                   attrs, validators, valids, csv, retval>>
    /\ UNCHANGED <<argsVars, yelpVars>>

\* svds raises ValueError (whether it does is the library's choice): main logs it
\* and raises it again
SvdsValueError ==
    /\ pc = "svd"
    /\ pc' = ExceptValueError
    /\ err' = "ValueError"
    /\ UNCHANGED <<foldNum, uniqUsrs, usr2labels, attrsCnt, kfolds, foldIt, ind, attrIt,
                   usrs4Train, usrs4Valid, usrsShuffled, statevalidator, uAll, uTrain,
                   uValid, dataStats, statIt, logreg, attrs, events, validators, valids,
                   csv, retval>>
    /\ UNCHANGED <<argsVars, yelpVars>>

\* the head of the attribute loop, initLogReg and fit (a user with no ind-th
\* nonzero column makes the target list raise IndexError)
Fit ==
    /\ pc = "fit" /\ attrIt < attrsCnt
    /\ LET i == PyRange(attrsCnt)[attrIt + 1] IN
       /\ ind' = i
       /\ attrIt' = attrIt + 1
       /\ IF AttrsIndexError(usrs4Train, usr2labels, i)
          THEN /\ pc' = "error" /\ err' = "IndexError: usr2NonzeroCols"
               /\ logreg' = LogRegForAttr(logreg)
               /\ UNCHANGED <<attrs, events>>
          ELSE /\ pc' = "predict" /\ err' = err
               /\ attrs' = Attrs(usrs4Train, usr2labels, i)
               /\ logreg' = fit(LogRegForAttr(logreg), uTrain, attrs')
               /\ events' = Append(events, Ev("fit", i))
    /\ UNCHANGED <<foldNum, uniqUsrs, usr2labels, attrsCnt, kfolds, foldIt, usrs4Train,
                   usrs4Valid, usrsShuffled, statevalidator, uAll, uTrain, uValid,
                   dataStats, statIt, validators, valids, csv, retval>>
    /\ UNCHANGED <<argsVars, yelpVars>>

\* handlePrediction, and the attribute loop goes on or ends
HandlePrediction ==
    /\ pc = "predict"
    /\ dataStats' = handlePrediction(dataStats, uTrain, uValid, logreg)
    /\ events' = Append(events, Ev("predict", ind))
    /\ pc' = IF attrIt < attrsCnt THEN "fit" ELSE "stats"
    /\ UNCHANGED <<err, foldNum, uniqUsrs, usr2labels, attrsCnt, kfolds, foldIt, ind, attrIt,
                   usrs4Train, usrs4Valid, usrsShuffled, statevalidator, uAll, uTrain,
                   uValid, statIt, logreg, attrs, validators, valids, csv, retval>>
    /\ UNCHANGED <<argsVars, yelpVars>>

\* one round of "for d in dataStats": the KPIs are set, then the record is written
CollectStats ==
    /\ pc = "stats" /\ statIt < Len(dataStats)
    /\ LET d == [dataStats[statIt + 1] EXCEPT !.KPIs = KPIs(dataStats[statIt + 1])] IN
       /\ dataStats' = [dataStats EXCEPT ![statIt + 1] = d]
       /\ csv' = Append(csv, writeCSVStats(statevalidator, d))
       /\ events' = events \o <<Ev("KPIs", statIt), Ev("write", statIt)>>
    /\ statIt' = statIt + 1
    /\ pc' = IF statIt' < Len(dataStats) THEN "stats" ELSE "fold"
    /\ UNCHANGED <<err, foldNum, uniqUsrs, usr2labels, attrsCnt, kfolds, foldIt, ind, attrIt,
                   usrs4Train, usrs4Valid, usrsShuffled, statevalidator, uAll, uTrain,
                   uValid, logreg, attrs, validators, valids, retval>>
    /\ UNCHANGED <<argsVars, yelpVars>>

\* the fold loop is exhausted: return 1
Return ==
    /\ pc = "fold" /\ foldIt >= foldNum
    /\ pc' = "returned"
    /\ retval' = <<1>>
    /\ UNCHANGED <<err, foldNum, uniqUsrs, usr2labels, attrsCnt, kfolds, foldIt, ind, attrIt,
                   usrs4Train, usrs4Valid, usrsShuffled, statevalidator, uAll, uTrain,
                   uValid, dataStats, statIt, logreg, attrs, events, validators, valids,
                   csv>>
    /\ UNCHANGED <<argsVars, yelpVars>>

Next ==
    \/ FoldStart
    \/ SvdsReturns
    \/ SvdsValueError
    \/ Fit
    \/ HandlePrediction
    \/ CollectStats
    \/ Return

Spec == Init /\ [][Next]_vars

\* ------------------------------------------------------------- main: the claims
InFold == pc \in {"svd", "fit", "predict", "stats"}

IsPrefix(s, t) == Len(s) <= Len(t) /\ s = SubSeq(t, 1, Len(s))

\* what one fold does, in order, when it has a attributes
ExpectedEvents(a) ==
    <<Ev("svd", 0)>>
    \o Flatten([j \in 1..a |-> <<Ev("fit", j - 1), Ev("predict", j - 1)>>])
    \o <<Ev("KPIs", 0), Ev("write", 0), Ev("KPIs", 1), Ev("write", 1)>>

\* the target of user u for the i-th attribute (0-based), said without the list of
\* nonzero columns: the column c that is not zero and has exactly i nonzero
\* columns before it
IsTargetOf(c, u, i) ==
    /\ c \in 0..(MaxLabels - 1)
    /\ usr2labels[u][c + 1] # 0
    /\ Cardinality({j \in 1..c : usr2labels[u][j] # 0}) = i

\* C1: the fold body runs once per fold index 0, 1, ..., foldNum-1, in increasing
\* order; the validator of each fold is built with curFold = that index and
\* totalFolds = foldNum, whatever the attribute loop did to ind; a run that
\* returns has run foldNum folds, and fold i validates on the users of kfolds[i].
C1_FoldsOnceInOrder ==
    /\ foldIt <= foldNum
    /\ Len(validators) = foldIt
    /\ \A i \in 1..Len(validators) :
          validators[i] = [curFold |-> i - 1, totalFolds |-> foldNum]
    /\ Len(valids) = foldIt
    /\ \A i \in 1..Len(valids) :
          Range(valids[i]) = {uniqUsrs[p + 1] : p \in Range(kfolds[i])}
    /\ InFold => statevalidator.curFold = foldIt - 1
    /\ pc = "returned" => foldIt = foldNum /\ retval = <<1>>

\* C1 witness: a run of two folds and one attribute has returned; the attribute
\* loop left ind at 0 in both folds and the second validator still has curFold 1
C1_Witness ==
    /\ pc = "returned" /\ foldNum = 2 /\ attrsCnt = 1 /\ ind = 0
    /\ Len(validators) = 2 /\ validators[2].curFold = 1
    /\ Len(csv) = 4

\* C2: in every fold the training and the validation users are disjoint, their
\* concatenation usrsShuffled is a permutation of the unique users, and the
\* validation sets of different folds are disjoint.
C2_DisjointPartition ==
    /\ InFold =>
          /\ Range(usrs4Train) \cap Range(usrs4Valid) = {}
          /\ Len(usrsShuffled) = Len(uniqUsrs)
          /\ Range(usrsShuffled) = Range(uniqUsrs)
          /\ usrsShuffled = usrs4Train \o usrs4Valid
    /\ \A i, j \in 1..Len(valids) : i # j => Range(valids[i]) \cap Range(valids[j]) = {}

\* C2 witness: the second fold of two, both folds with users to validate on
C2_Witness ==
    /\ pc = "svd" /\ foldIt = 2
    /\ usrs4Train # <<>> /\ usrs4Valid # <<>>
    /\ valids[1] # <<>> /\ valids[2] # <<>>

\* C3: a fold does svds, then per attribute j = 0..attrsCnt-1 a fit of a fresh
\* classifier on the training rows only and right after it one handlePrediction,
\* then the KPIs; a finished fold has done exactly attrsCnt fits and attrsCnt
\* predictions, and no KPI comes before the last prediction.
C3_FoldOrder ==
    /\ IsPrefix(events, ExpectedEvents(attrsCnt))
    /\ pc = "predict" =>
          /\ logreg.fits = 1
          /\ logreg.X = uTrain
          /\ \A r \in 1..Len(logreg.X) :
                /\ logreg.X[r].embOf \in Range(usrs4Train)
                /\ logreg.X[r].embOf \notin Range(usrs4Valid)
          /\ events[Len(events)] = Ev("fit", ind)
    /\ pc = "stats" =>
          Cardinality({e \in 1..Len(events) : events[e].op = "predict"}) = attrsCnt
    /\ (pc \in {"fold", "returned"} /\ foldIt > 0) => events = ExpectedEvents(attrsCnt)

\* C3 witness: a fold with two attributes, training and validation users, is done
C3_Witness ==
    /\ pc = "fold" /\ foldIt = 1 /\ attrsCnt = 2
    /\ events = ExpectedEvents(2)
    /\ usrs4Train # <<>> /\ usrs4Valid # <<>>

\* C4 as claimed: the target of every training user is the 0/1 entry for the
\* attribute in the user's label vector.
C4_TargetIsLabelEntry ==
    pc = "predict" =>
        \A k \in 1..Len(attrs) :
            /\ attrs[k] \in {0, 1}
            /\ attrs[k] = usr2labels[usrs4Train[k]][ind + 1]

\* C4 as amended: the target of every training user for attribute ind is the
\* ind-th entry of the user's list of nonzero columns: the index of a column of
\* the label vector that is not zero, with ind nonzero columns before it.
C4_TargetIsNonzeroCol ==
    pc = "predict" =>
        /\ Len(attrs) = Len(usrs4Train)
        /\ \A k \in 1..Len(attrs) : IsTargetOf(attrs[k], usrs4Train[k], ind)

\* C4 witness: a fit whose target is a column index that differs from the label
\* entry of the attribute
C4_Witness ==
    /\ pc = "predict" /\ ind = 0
    /\ Len(attrs) = 1 /\ attrs[1] = 1
    /\ usr2labels[usrs4Train[1]] = <<0, 1>>

\* C5: every record of a finished fold has KPIs with exactly the six keys and is
\* written once, after its KPIs are set, for the validator of its fold: the rows
\* come fold by fold, |dataStats| per fold, and a run that returns has written
\* foldNum * |dataStats| rows.
C5_StatsWritten ==
    /\ \A i \in 1..Len(csv) :
          /\ DOMAIN csv[i].KPIs = KPI2getters
          /\ csv[i].fold = (i - 1) \div 2
          /\ csv[i].totalFolds = foldNum
          /\ csv[i].name = (IF i % 2 = 1 THEN "train" ELSE "valid")
    /\ InFold => Len(dataStats) \in {0, 2}
    /\ InFold => Len(csv) = 2 * (foldIt - 1) + statIt
    /\ pc = "stats" => \A d \in 1..Len(dataStats) :
          (DOMAIN dataStats[d].KPIs = KPI2getters) = (d <= statIt)
    /\ pc = "fold" => Len(csv) = 2 * foldIt
    /\ pc = "returned" => Len(csv) = foldNum * Len(dataStats)

\* C5 witness: a run of two folds has returned with its four rows
C5_Witness ==
    /\ pc = "returned" /\ foldNum = 2 /\ Len(csv) = 4
    /\ csv[3].fold = 1 /\ csv[3].name = "train" /\ attrsCnt = 2

\* C7: uTrain is the first len(usrs4Train) rows of uAll and uValid the rest; row i
\* of uTrain belongs to usrs4Train[i], row i of uValid to usrs4Valid[i], and the
\* target list of a fit is aligned with uTrain.
C7_SlicesAligned ==
    /\ pc \in {"fit", "predict", "stats"} =>
          /\ Len(uAll) = Len(usrsShuffled)
          /\ \A i \in 1..Len(uAll) : uAll[i].embOf = usrsShuffled[i]
          /\ Len(uTrain) = Len(usrs4Train)
          /\ Len(uValid) = Len(usrs4Valid)
          /\ \A i \in 1..Len(uTrain) : uTrain[i] = uAll[i] /\ uTrain[i].embOf = usrs4Train[i]
          /\ \A i \in 1..Len(uValid) :
                uValid[i] = uAll[Len(usrs4Train) + i] /\ uValid[i].embOf = usrs4Valid[i]
    /\ pc = "predict" =>
          /\ Len(logreg.y) = Len(logreg.X)
          /\ \A i \in 1..Len(logreg.y) : IsTargetOf(logreg.y[i], logreg.X[i].embOf, ind)

\* C7 witness: a fit on two training rows in shuffled order with different
\* targets
C7_Witness ==
    /\ pc = "predict"
    /\ Len(uTrain) = 2 /\ uTrain[1].embOf = 2 /\ uTrain[2].embOf = 1
    /\ attrs[1] # attrs[2]

\* C8: when svds raises ValueError in fold i, main raises it again: the fold fits
\* nothing and writes nothing, no later fold starts, main returns nothing, and
\* the rows of the folds 0..i-1 stay as written.
C8_ValueErrorEndsMain ==
    err = "ValueError" =>
        /\ pc = "raised"
        /\ ~ENABLED Next
        /\ retval = <<>>
        /\ events = <<>>
        /\ Len(validators) = foldIt
        /\ statevalidator.curFold = foldIt - 1
        /\ Len(csv) = 2 * (foldIt - 1)
        /\ \A i \in 1..Len(csv) : csv[i].fold < statevalidator.curFold

\* C8 witness: svds raised in the second fold, after the first wrote its rows
C8_Witness ==
    /\ pc = "raised" /\ err = "ValueError" /\ foldIt = 2 /\ Len(csv) = 2
    /\ attrsCnt = 1

\* ------------------------------------------------------------- parseArgs
Chars == {"/", "a", "b"}

\* the file names a caller can pass: strings, the empty one included
Paths == UNION {[1..n -> Chars] : n \in 0..MaxPathLen}

\* Python's truth value of a string or None
Truthy(x) == x # None /\ x # <<>>

\* s.split('/')
RECURSIVE Split(_)
Split(s) ==
    IF s = <<>> THEN << <<>> >>
    ELSE IF Head(s) = "/" THEN << <<>> >> \o Split(Tail(s))
    ELSE LET r == Split(Tail(s)) IN << <<Head(s)>> \o Head(r) >> \o Tail(r)

\* whether getSubDir raises IndexError: one of the names has no third component
getSubDirIndexError(rf, uf) == Len(Split(rf)) < 3 \/ Len(Split(uf)) < 3

\* getSubDir: the third component of the names when it is the same, else None
getSubDir(rf, uf) ==
    LET rating_file_subdir == Split(rf)[3]
        usr2labels_file_subdir == Split(uf)[3]
    IN  IF rating_file_subdir = usr2labels_file_subdir THEN rating_file_subdir ELSE None

\* parseArgs: how the call ends for the two file names (foldNum, dataset and
\* subtitle are handed through as they are)
parseArgs(rf, uf) ==
    LET cond1 == ~Truthy(rf) /\ Truthy(uf)
        cond2 == Truthy(rf) /\ ~Truthy(uf)
        cond3 == Truthy(rf) /\ Truthy(uf)
        ends(kind) == [kind |-> kind, rating_file |-> rf, usr2labels_file |-> uf]
    IN  IF cond1 \/ cond2 THEN ends("Exception: usage")
        ELSE IF cond3
             THEN IF getSubDirIndexError(rf, uf) THEN ends("IndexError")
                  ELSE IF ~Truthy(getSubDir(rf, uf)) THEN ends("Exception: usage")
                  ELSE ends("return")
        ELSE ends("return")

\* a call of parseArgs with any two file names, given or not
InitArgs ==
    /\ MainIdle /\ YelpIdle
    /\ apc = "call"
    /\ rating_file \in Paths \cup {None}
    /\ usr2labels_file \in Paths \cup {None}
    /\ aresult = [kind |-> "none", rating_file |-> None, usr2labels_file |-> None]

ParseArgs ==
    /\ apc = "call"
    /\ aresult' = parseArgs(rating_file, usr2labels_file)
    /\ apc' = "done"
    /\ UNCHANGED <<rating_file, usr2labels_file>>
    /\ UNCHANGED <<mainVars, yelpVars>>

NextArgs == ParseArgs

SpecArgs == InitArgs /\ [][NextArgs]_vars

\* the directory a file name lies under: its components but the last
DirName(p) == LET c == Split(p) IN SubSeq(c, 1, Len(c) - 1)

\* C6: parseArgs returns if and only if neither file is given, or both are given
\* and lie under the same directory; in every other case it raises the usage
\* Exception.
C6_ReturnsIffConsistent ==
    apc = "done" =>
        LET both == Truthy(rating_file) /\ Truthy(usr2labels_file)
            neither == ~Truthy(rating_file) /\ ~Truthy(usr2labels_file)
            ok == neither \/ (both /\ DirName(rating_file) = DirName(usr2labels_file))
        IN  /\ (aresult.kind = "return") = ok
            /\ ~ok => aresult.kind = "Exception: usage"

\* ------------------------------------------------------------- yelp load
\* the fields a line can hold
Tokens == {"1", "2", " 2", "x"}

\* whether int(tok) returns
IsInt(tok) == tok \in {"1", "2", " 2"}

\* int(tok)
int(tok) == CASE tok = "1" -> 1 [] tok = "2" -> 2 [] tok = " 2" -> 2

\* line.strip().split('\t'): the lines a file can hold, as their fields
Lines == UNION {[1..n -> Tokens] : n \in 1..2}

\* whether the try block gets past usr = int(line[0]) and itemNum = int(line[1])
Parses(line) == Len(line) >= 2 /\ IsInt(line[1]) /\ IsInt(line[2])

\* itemsList.index(itemNum): the first position (0-based) that holds it
index(list, x) == CHOOSE i \in 0..(Len(list) - 1) :
                      list[i + 1] = x /\ \A j \in 0..(i - 1) : list[j + 1] # x

\* itemIndx: where the item of the line is, or will be, in itemsList
ItemIndxNeverLooksUp(list, itemNum) == Len(list)
ItemIndx(list, itemNum) ==
    IF itemNum \in Range(list) THEN index(list, itemNum) ELSE Len(list)

\* itemsList after the line: the item is appended unless it is there
ItemsListAfter(list, itemNum) ==
    IF itemNum \in Range(list) THEN list ELSE Append(list, itemNum)

\* usr2itemsIndx after the line: the user's list, made if needed, gets itemIndx
Usr2itemsIndxAfter(u2i, usr, itemIndx) ==
    [u \in DOMAIN u2i \cup {usr} |->
        IF u = usr THEN Append(IF usr \in DOMAIN u2i THEN u2i[usr] ELSE <<>>, itemIndx)
        ELSE u2i[u]]

\* ind2ItemNum = {k: v for v, k in enumerate(itemsList)}: the last position wins
Ind2ItemNum(list) ==
    [k \in Range(list) |->
        CHOOSE v \in 0..(Len(list) - 1) :
            list[v + 1] = k /\ \A w \in (v + 1)..(Len(list) - 1) : list[w + 1] # k]

\* load has opened the file and read nothing yet
InitYelp ==
    /\ MainIdle /\ ArgsIdle
    /\ ypc = "reading" /\ usr2itemsIndx = <<>> /\ itemsList = <<>> /\ ind2ItemNum = <<>>
    /\ lines = <<>> /\ before = [usr2itemsIndx |-> <<>>, itemsList |-> <<>>]
    /\ linesRead = 0

\* one round of "for line in f"
ReadLine ==
    /\ ypc = "reading" /\ linesRead < MaxLines
    /\ \E line \in Lines :
          /\ lines' = Append(lines, line)
          /\ before' = [usr2itemsIndx |-> usr2itemsIndx, itemsList |-> itemsList]
          /\ IF Parses(line)
             THEN LET usr == int(line[1])
                      itemNum == int(line[2])
                  IN  /\ itemsList' = ItemsListAfter(itemsList, itemNum)
                      /\ usr2itemsIndx' =
                            Usr2itemsIndxAfter(usr2itemsIndx, usr, ItemIndx(itemsList, itemNum))
             ELSE UNCHANGED <<usr2itemsIndx, itemsList>>
    /\ linesRead' = linesRead + 1
    /\ UNCHANGED <<ypc, ind2ItemNum>>
    /\ UNCHANGED <<mainVars, argsVars>>

\* the file is exhausted: load builds the second mapping and returns
LoadReturns ==
    /\ ypc = "reading"
    /\ ind2ItemNum' = Ind2ItemNum(itemsList)
    /\ ypc' = "returned"
    /\ UNCHANGED <<usr2itemsIndx, itemsList, lines, before, linesRead>>
    /\ UNCHANGED <<mainVars, argsVars>>

NextYelp ==
    \/ ReadLine
    \/ LoadReturns

SpecYelp == InitYelp /\ [][NextYelp]_vars

\* the (user, item) pairs of the lines that parse, in line order
RECURSIVE Pairs(_)
Pairs(ls) ==
    IF ls = <<>> THEN <<>>
    ELSE LET front == Pairs(SubSeq(ls, 1, Len(ls) - 1))
             l == ls[Len(ls)]
         IN  IF Parses(l) THEN front \o << <<int(l[1]), int(l[2])>> >> ELSE front

\* C9: after any prefix of the lines, itemsList holds each item number seen once,
\* in order of first appearance; every stored index is the position in itemsList
\* of its line's item; usr2itemsIndx[usr] lists the user's items in line order;
\* a line that does not parse changes nothing; and the second mapping returned
\* sends every item number to that position, one-to-one onto 0..len(itemsList)-1.
C9_LoadInvariant ==
    LET pairs == Pairs(lines)
        firsts == {i \in 1..Len(pairs) : \A j \in 1..(i - 1) : pairs[j][2] # pairs[i][2]}
        usrs == {pairs[i][1] : i \in 1..Len(pairs)}
    IN  /\ Len(itemsList) = Cardinality(firsts)
        /\ \A a, b \in 1..Len(itemsList) : a # b => itemsList[a] # itemsList[b]
        /\ \A i \in firsts :
              itemsList[Cardinality({j \in firsts : j <= i})] = pairs[i][2]
        /\ DOMAIN usr2itemsIndx = usrs
        /\ \A u \in usrs :
              LET mine == SelectSeq(pairs, LAMBDA p : p[1] = u)
              IN  /\ Len(usr2itemsIndx[u]) = Len(mine)
                  /\ \A k \in 1..Len(mine) :
                        /\ usr2itemsIndx[u][k] < Len(itemsList)
                        /\ itemsList[usr2itemsIndx[u][k] + 1] = mine[k][2]
        /\ (lines # <<>> /\ ~Parses(lines[Len(lines)])) =>
              /\ usr2itemsIndx = before.usr2itemsIndx
              /\ itemsList = before.itemsList
        /\ ypc = "returned" =>
              /\ DOMAIN ind2ItemNum = Range(itemsList)
              /\ \A k \in DOMAIN ind2ItemNum : itemsList[ind2ItemNum[k] + 1] = k
              /\ {ind2ItemNum[k] : k \in DOMAIN ind2ItemNum} = 0..(Len(itemsList) - 1)

\* C9 witness: three lines read, one that does not parse, one that repeats an
\* item under another spelling; the load has returned
C9_Witness ==
    /\ ypc = "returned"
    /\ lines = << <<"1", "2">>, <<"x", "1">>, <<"2", " 2">> >>
    /\ itemsList = <<2>>
    /\ usr2itemsIndx[1] = <<0>> /\ usr2itemsIndx[2] = <<0>>

====
